---- MODULE Spec2Model ----
(***************************************************************************)
(* A model of the go-license package (license.go): the lookup tables built *)
(* by init, the file locator (LicenseFilesInDir, GuessFile), the           *)
(* constructors (New, NewFromFile, NewFromDir), the classifier (GuessType) *)
(* and the recognition predicate (Recognized).                             *)
(*                                                                         *)
(* Text is modelled as a sequence of symbols.  A symbol is a whitespace    *)
(* character, a comma, or a word; a word carries the way it is spelled     *)
(* (lower case, upper case, capitalised, or lower case with U+0131 in      *)
(* place of i).  Case folding, the two regular-expression replacements and *)
(* strings.Contains are computed symbol by symbol on these sequences.      *)
(***************************************************************************)
EXTENDS Integers, Sequences, FiniteSets, TLC

\* ------------------------------------------------------------ bounds

\* Largest number of phrases a generated license text is put together from.
MaxPieces == 2

\* Largest number of entries in a generated directory.
MaxEntries == 3

\* ------------------------------------------------------------ symbols

Sp    == [c |-> "space", s |-> " "]
Lf    == [c |-> "space", s |-> "\n"]
Cr    == [c |-> "space", s |-> "\r"]
Tab   == [c |-> "space", s |-> "\t"]
Comma == [c |-> "punct", s |-> ","]

\* A word spelled in lower case, and the same word in the other spellings.
Word(w) == [c |-> "lower", s |-> w]

\* Words of the phrases below that contain the letter i.
HasI ==
    { "permission", "is", "this", "license", "licenses", "public", "version",
      "redistribution", "neither", "distribution", "distribute", "eclipse",
      "obtaining", "mozilla", "binary", "domain",
      "http://www.apache.org/licenses/license-2.0" }

\* strings.ToLower on one symbol: upper-case and capitalised words fold to
\* the lower-case word; U+0131 is already lower case and stays.
ToLowerSym(ch) ==
    IF ch.c \in {"upper", "title"} THEN [ch EXCEPT !.c = "lower"] ELSE ch

\* strings.ToUpper on one symbol: every spelling of a word, the one with
\* U+0131 included (its upper case is the ASCII letter I), becomes the
\* upper-case word.
ToUpperSym(ch) ==
    IF ch.c \in {"lower", "title", "dotless"} THEN [ch EXCEPT !.c = "upper"] ELSE ch

ToLower(text) == [i \in 1..Len(text) |-> ToLowerSym(text[i])]

ToUpper(text) == [i \in 1..Len(text) |-> ToUpperSym(text[i])]

\* \s of the regexp package: [\t\n\f\r ].
IsSpace(ch) == ch.c = "space"

\* The pieces of a string put together: parts[lo] \o ... \o parts[hi], and
\* all of them.
RECURSIVE Splice(_, _, _)
Splice(parts, lo, hi) ==
    IF lo > hi THEN <<>>
    ELSE IF lo = hi THEN parts[lo]
    ELSE LET mid == (lo + hi) \div 2
         IN  Splice(parts, lo, mid) \o Splice(parts, mid + 1, hi)

Flatten(ps) == Splice(ps, 1, Len(ps))

\* ------------------------------------------------------------ phrases

\* A phrase written as its words; a single space separates two words, and
\* a comma follows the word before it directly.
Spaced(ws, gap) ==
    Flatten([i \in 1..Len(ws) |->
        <<IF ws[i] = "," THEN Comma ELSE Word(ws[i])>>
        \o (IF i < Len(ws) /\ ws[i + 1] # "," THEN gap ELSE <<>>)])

Phrase(ws) == Spaced(ws, <<Sp>>)

WordsMIT ==
    << "permission", "is", "hereby", "granted", ",", "free", "of", "charge", ",",
       "to", "any", "person", "obtaining", "a", "copy", "of", "this", "software" >>
WordsISC ==
    << "permission", "to", "use", ",", "copy", ",", "modify", ",", "and/or",
       "distribute", "this", "software", "for", "any" >>
WordsApache ==
    << "apache", "license", "version", "2.0", ",", "january", "2004" >>
WordsApacheURL ==
    << "http://www.apache.org/licenses/license-2.0" >>
WordsGPL20 ==
    << "gnu", "general", "public", "license", "version", "2", ",", "june", "1991" >>
WordsGPL30 ==
    << "gnu", "general", "public", "license", "version", "3", ",", "29", "june", "2007" >>
WordsLGPL21 ==
    << "gnu", "lesser", "general", "public", "license", "version", "2.1", ",",
       "february", "1999" >>
WordsLGPL30 ==
    << "gnu", "lesser", "general", "public", "license", "version", "3", ",",
       "29", "june", "2007" >>
WordsAGPL30 ==
    << "gnu", "affero", "general", "public", "license", "version", "3", ",",
       "19", "november", "2007" >>
WordsMozilla == << "mozilla", "public", "license" >>
WordsVersion20 == << "version", "2.0" >>
WordsRedistribution ==
    << "redistribution", "and", "use", "in", "source", "and", "binary", "forms" >>
WordsNeither == << "neither", "the", "name", "of" >>
WordsCDDL10 ==
    << "common", "development", "and", "distribution", "license", "(cddl)",
       "version", "1.0" >>
WordsEPL10 == << "eclipse", "public", "license", "-", "v", "1.0" >>
WordsUnlicense ==
    << "this", "is", "free", "and", "unencumbered", "software", "released",
       "into", "the", "public", "domain" >>
WordsNoLicenseData == << "no", "license", "data" >>

\* ------------------------------------------------------------ constants

LicenseMIT       == "MIT"
LicenseISC       == "ISC"
LicenseNewBSD    == "NewBSD"
LicenseFreeBSD   == "FreeBSD"
LicenseApache20  == "Apache-2.0"
LicenseMPL20     == "MPL-2.0"
LicenseGPL20     == "GPL-2.0"
LicenseGPL30     == "GPL-3.0"
LicenseLGPL21    == "LGPL-2.1"
LicenseLGPL30    == "LGPL-3.0"
LicenseAGPL30    == "AGPL-3.0"
LicenseCDDL10    == "CDDL-1.0"
LicenseEPL10     == "EPL-1.0"
LicenseUnlicense == "Unlicense"

ErrNoLicenseFile       == "license: unable to find any license file"
ErrUnrecognizedLicense == "license: could not guess license type"
ErrMultipleLicenses    == "license: multiple license files found"

\* An error value is the sequence of the parts of its message; nil is the
\* empty sequence.  fmt.Errorf(msg) with no verbs yields the message itself.
Nil == <<>>
Errorf(msg) == <<msg>>

\* ------------------------------------------------------------ classifier

\* scan: strings.Contains(text, match).
scan(text, match) ==
    \/ match = <<>>
    \/ \E i \in 1..(Len(text) - Len(match) + 1) :
        /\ text[i] = match[1]
        /\ SubSeq(text, i, i + Len(match) - 1) = match

\* newlineRegexp "(\r\n|\n)", ReplaceAllLiteralString(comp, " "): from left
\* to right, a CR LF pair or a lone LF becomes one space; a lone CR stays.
ReplaceNewlines(text) ==
    Flatten([i \in 1..Len(text) |->
        IF text[i] = Cr /\ i < Len(text) /\ text[i + 1] = Lf THEN <<>>
        ELSE IF text[i] = Lf THEN <<Sp>>
        ELSE <<text[i]>>])

\* Length of the run of whitespace symbols text starts with.
SpaceRun(text) ==
    CHOOSE n \in 0..Len(text) :
        /\ \A i \in 1..n : IsSpace(text[i])
        /\ n = Len(text) \/ ~IsSpace(text[n + 1])

CollapseSpaces_Kept(text) == text

\* spaceRegexp "\s{2,}", ReplaceAllLiteralString(comp, " "): every maximal
\* run of two or more whitespace symbols becomes one space; a single
\* whitespace symbol stays as it is.
CollapseSpaces(text) ==
    Flatten([i \in 1..Len(text) |->
        IF ~IsSpace(text[i]) THEN <<text[i]>>
        ELSE IF i > 1 /\ IsSpace(text[i - 1]) THEN <<>>
        ELSE IF SpaceRun(SubSeq(text, i, Len(text))) >= 2 THEN <<Sp>>
        ELSE <<text[i]>>])

Normalize_CaseKept(text) == CollapseSpaces(ReplaceNewlines(text))

\* comp of GuessType: the text in lower case, newlines replaced, runs of
\* whitespace collapsed.
Normalize(text) == CollapseSpaces(ReplaceNewlines(ToLower(text)))

\* The literals the cases of GuessType scan for.
SigMIT            == Phrase(WordsMIT)
SigISC            == Phrase(WordsISC)
SigApache         == Phrase(WordsApache)
SigApacheURL      == Phrase(WordsApacheURL)
SigGPL20          == Phrase(WordsGPL20)
SigGPL30          == Phrase(WordsGPL30)
SigLGPL21         == Phrase(WordsLGPL21)
SigLGPL30         == Phrase(WordsLGPL30)
SigAGPL30         == Phrase(WordsAGPL30)
SigMozilla        == Phrase(WordsMozilla)
SigVersion20      == Phrase(WordsVersion20)
SigRedistribution == Phrase(WordsRedistribution)
SigNeither_Nor    == Phrase(WordsNeither \o <<"nor">>)
SigNeither        == Phrase(WordsNeither)
SigCDDL10         == Phrase(WordsCDDL10)
SigEPL10          == Phrase(WordsEPL10)
SigUnlicense      == Phrase(WordsUnlicense)

Cascade_ISCFirst(comp) ==
    IF scan(comp, SigISC) THEN LicenseISC
    ELSE IF scan(comp, SigMIT) THEN LicenseMIT
    ELSE IF scan(comp, SigApache) \/ scan(comp, SigApacheURL)
         THEN LicenseApache20
    ELSE IF scan(comp, SigGPL20) THEN LicenseGPL20
    ELSE IF scan(comp, SigGPL30) THEN LicenseGPL30
    ELSE IF scan(comp, SigLGPL21) THEN LicenseLGPL21
    ELSE IF scan(comp, SigLGPL30) THEN LicenseLGPL30
    ELSE IF scan(comp, SigAGPL30) THEN LicenseAGPL30
    ELSE IF scan(comp, SigMozilla) /\ scan(comp, SigVersion20)
         THEN LicenseMPL20
    ELSE IF scan(comp, SigRedistribution)
         THEN IF scan(comp, SigNeither) THEN LicenseNewBSD
              ELSE LicenseFreeBSD
    ELSE IF scan(comp, SigCDDL10) THEN LicenseCDDL10
    ELSE IF scan(comp, SigEPL10) THEN LicenseEPL10
    ELSE IF scan(comp, SigUnlicense) THEN LicenseUnlicense
    ELSE ""

\* The switch of GuessType on the normalized text comp: the type of the
\* first case that matches, or "" when the default case is taken.
Cascade(comp) ==
    IF scan(comp, SigMIT) THEN LicenseMIT
    ELSE IF scan(comp, SigISC) THEN LicenseISC
    ELSE IF scan(comp, SigApache) \/ scan(comp, SigApacheURL)
         THEN LicenseApache20
    ELSE IF scan(comp, SigGPL20) THEN LicenseGPL20
    ELSE IF scan(comp, SigGPL30) THEN LicenseGPL30
    ELSE IF scan(comp, SigLGPL21) THEN LicenseLGPL21
    ELSE IF scan(comp, SigLGPL30) THEN LicenseLGPL30
    ELSE IF scan(comp, SigAGPL30) THEN LicenseAGPL30
    ELSE IF scan(comp, SigMozilla) /\ scan(comp, SigVersion20)
         THEN LicenseMPL20
    ELSE IF scan(comp, SigRedistribution)
         THEN IF scan(comp, SigNeither) THEN LicenseNewBSD
              ELSE LicenseFreeBSD
    ELSE IF scan(comp, SigCDDL10) THEN LicenseCDDL10
    ELSE IF scan(comp, SigEPL10) THEN LicenseEPL10
    ELSE IF scan(comp, SigUnlicense) THEN LicenseUnlicense
    ELSE ""

GuessTypeOf_TypeCleared(rec) ==
    LET t == Cascade(Normalize(rec.Text)) IN
    IF t = "" THEN [rec |-> [rec EXCEPT !.Type = ""], err |-> Errorf(ErrUnrecognizedLicense)]
    ELSE [rec |-> [rec EXCEPT !.Type = t], err |-> Nil]

\* GuessType on a record: the record afterwards and the error returned.
\* Type is assigned only in a matching case; the default case returns the
\* error and assigns nothing.
GuessTypeOf(rec) ==
    LET t == Cascade(Normalize(rec.Text)) IN
    IF t = "" THEN [rec |-> rec, err |-> Errorf(ErrUnrecognizedLicense)]
    ELSE [rec |-> [rec EXCEPT !.Type = t], err |-> Nil]

\* ------------------------------------------------------------ texts

\* A symbol of a phrase respelled: words change, whitespace and commas do
\* not.  "dotless" respells only the words that contain an i.
Spell(form, ch) ==
    IF ch.c # "lower" THEN ch
    ELSE IF form = "dotless"
         THEN IF ch.s \in HasI THEN [ch EXCEPT !.c = "dotless"] ELSE ch
    ELSE [ch EXCEPT !.c = form]

\* The text made of the given words, spelled in the given form, with gap
\* between two words.
Render(ws, form, gap) ==
    LET t == Spaced(ws, gap) IN [i \in 1..Len(t) |-> Spell(form, t[i])]

\* The phrases texts are put together from: every literal of GuessType, in
\* the order of its cases, and a phrase that belongs to no license.
Pieces ==
    << WordsMIT, WordsISC, WordsApache, WordsApacheURL, WordsGPL20, WordsGPL30,
       WordsLGPL21, WordsLGPL30, WordsAGPL30, WordsMozilla, WordsVersion20,
       WordsRedistribution, WordsNeither, WordsCDDL10, WordsEPL10,
       WordsUnlicense, WordsNoLicenseData >>

Reverse(q) == [i \in 1..Len(q) |-> q[Len(q) + 1 - i]]

\* The words of up to MaxPieces different phrases, one after the other, in
\* the order of Pieces or in the opposite order.
WordLists ==
    UNION { LET ps == SelectSeq(Pieces, LAMBDA w : w \in chosen)
            IN  { Flatten(ps), Flatten(Reverse(ps)) } :
            chosen \in { c \in SUBSET { Pieces[i] : i \in 1..Len(Pieces) } :
                            Cardinality(c) <= MaxPieces } }

\* How a text is spelled and what separates its words.
Layouts ==
    { [form |-> "title", gap |-> <<Lf>>],
      [form |-> "lower", gap |-> <<Sp>>],
      [form |-> "dotless", gap |-> <<Lf>>] }

Texts == { Render(ws, ly.form, ly.gap) : ws \in WordLists, ly \in Layouts }

\* ------------------------------------------------------------ file system

\* A file name is the sequence of its base name and, when it has one, its
\* extension, each a symbol; file + ext of init is their concatenation.
Named(form, file) == <<[c |-> form, s |-> file]>>
NamedExt(form, file, extForm, ext) ==
    <<[c |-> form, s |-> file], [c |-> extForm, s |-> ext]>>
Concat_ExtDropped(file, ext) == <<Word(file)>>
Concat(file, ext) ==
    IF ext = "" THEN <<Word(file)>> ELSE <<Word(file), Word(ext)>>

\* The names directory entries are drawn from, in the order ReadDir sorts
\* them (by byte value: upper case before lower case).
NamePool ==
    << Named("upper", "copyright"),                     \* COPYRIGHT
       Named("upper", "license"),                       \* LICENSE
       NamedExt("upper", "license", "lower", ".txt"),   \* LICENSE.txt
       NamedExt("title", "unlicense", "lower", ".md"),  \* Unlicense.md
       NamedExt("lower", "copying", "upper", ".rst"),   \* copying.RST
       Named("lower", "copyleft"),                      \* copyleft
       NamedExt("lower", "copyright", "lower", ".txt"), \* copyright.txt
       NamedExt("lower", "license", "lower", ".html"),  \* license.html
       Named("lower", "nope") >>                        \* nope

Names == { NamePool[i] : i \in 1..Len(NamePool) }

\* What an entry of a given name is: the entry copyleft is a subdirectory,
\* the others are regular files.
Kind(name) == IF name = Named("lower", "copyleft") THEN "dir" ELSE "file"

\* The content of the regular file of a given name.
Data(name) ==
    IF name = Named("upper", "license")
        THEN Render(WordsMIT, "title", <<Lf>>)
    ELSE IF name = NamedExt("upper", "license", "lower", ".txt")
        THEN Render(WordsRedistribution \o WordsNeither, "title", <<Cr, Lf>>)
    ELSE IF name = Named("upper", "copyright")
        THEN Render(WordsISC, "lower", <<Sp>>)
    ELSE IF name = NamedExt("lower", "copyright", "lower", ".txt")
        THEN Render(WordsApacheURL, "upper", <<Sp>>)
    ELSE IF name = NamedExt("lower", "copying", "upper", ".rst")
        THEN Render(WordsNoLicenseData, "title", <<Sp>>)
    ELSE IF name = NamedExt("title", "unlicense", "lower", ".md")
        THEN Render(WordsUnlicense, "upper", <<Lf>>)
    ELSE IF name = NamedExt("lower", "license", "lower", ".html")
        THEN Render(WordsRedistribution, "title", <<Lf, Lf>>)
    ELSE <<>>

\* A directory: a readable directory with the entries ls, or a path that
\* does not exist or may not be read.
DirOf(ls) == [st |-> "dir", ls |-> ls]
Listings == { ls \in SUBSET Names : Cardinality(ls) <= MaxEntries }
BadDirs == { [st |-> st, ls |-> {}] : st \in {"enoent", "eacces"} }
Dirs == { DirOf(ls) : ls \in Listings } \cup BadDirs

\* A path: a directory and a name in it; the empty name is the directory
\* itself.  The empty path is the zero value of License.File.
EmptyPath == [dir |-> [st |-> "", ls |-> {}], name |-> <<>>]
DirPath(d) == [dir |-> d, name |-> <<>>]
\* filepath.Join(dir, name)
Join(dir, name) == [dir |-> dir.dir, name |-> name]

\* The error of the operating system for a failed call.
SysError(call, st) ==
    << call,
       IF st = "enoent" THEN "no such file or directory"
       ELSE IF st = "enotdir" THEN "not a directory"
       ELSE IF st = "eisdir" THEN "is a directory"
       ELSE "permission denied" >>

\* ioutil.ReadDir: the names of the entries, sorted, or the system's error.
\* A subdirectory is empty.
ReadDir(path) ==
    IF path.dir.st # "dir" THEN [files |-> <<>>, err |-> SysError("open", path.dir.st)]
    ELSE IF path.name # <<>> /\ path.name \notin path.dir.ls
         THEN [files |-> <<>>, err |-> SysError("open", "enoent")]
    ELSE IF path.name # <<>> /\ Kind(path.name) = "file"
         THEN [files |-> <<>>, err |-> SysError("readdirent", "enotdir")]
    ELSE IF path.name # <<>> THEN [files |-> <<>>, err |-> Nil]
    ELSE [files |-> SelectSeq(NamePool, LAMBDA n : n \in path.dir.ls), err |-> Nil]

\* ioutil.ReadFile: the content of the file, or the system's error.
ReadFile(path) ==
    IF path.dir.st # "dir" THEN [data |-> <<>>, err |-> SysError("open", path.dir.st)]
    ELSE IF path.name = <<>> THEN [data |-> <<>>, err |-> SysError("read", "eisdir")]
    ELSE IF path.name \notin path.dir.ls
         THEN [data |-> <<>>, err |-> SysError("open", "enoent")]
    ELSE IF Kind(path.name) = "dir"
         THEN [data |-> <<>>, err |-> SysError("read", "eisdir")]
    ELSE [data |-> Data(path.name), err |-> Nil]

\* ------------------------------------------------------------ state

VARIABLES
    fileTable,            \* set of the known license file names
    licenseTable,         \* set of the known license types
    DefaultLicenseFiles,  \* the known license file names, as a list
    KnownLicenses,        \* the known license types, as a list
    l,                    \* the License the last call returned or acted on
    ret,                  \* the last call: its name, arguments and results
    m,                    \* a License holding the text of l written differently
    mret                  \* GuessType on m: whether it ran, and its error

vars == <<fileTable, licenseTable, DefaultLicenseFiles, KnownLicenses, l, ret, m, mret>>
tables == <<fileTable, licenseTable, DefaultLicenseFiles, KnownLicenses>>

fileNames == << "copying", "copyleft", "license", "unlicense" >>
fileExtensions == << "", ".md", ".rst", ".txt" >>

\* The loop of init over fileNames and fileExtensions: the names appended
\* to DefaultLicenseFiles, file by file and extension by extension.
GeneratedFiles ==
    [k \in 1..(Len(fileNames) * Len(fileExtensions)) |->
        Concat(fileNames[((k - 1) \div Len(fileExtensions)) + 1],
               fileExtensions[((k - 1) % Len(fileExtensions)) + 1])]

\* The literal init assigns to KnownLicenses.
InitialLicenses ==
    << LicenseMIT, LicenseNewBSD, LicenseFreeBSD, LicenseApache20, LicenseMPL20,
       LicenseGPL20, LicenseGPL30, LicenseLGPL21, LicenseLGPL30, LicenseAGPL30,
       LicenseCDDL10, LicenseEPL10, LicenseUnlicense >>

\* A License value, and the nil pointer.
License(type, text, file) == [nil |-> FALSE, Type |-> type, Text |-> text, File |-> file]
Null == [nil |-> TRUE, Type |-> "", Text |-> <<>>, File |-> EmptyPath]

\* The record of a call.  arg: the path passed; pre: the License the call
\* was made on, as it was before; ptr: a License was returned; err: the
\* error returned; ok: the boolean returned; files, types: the list returned.
Ret(op, arg, pre, ptr, err) ==
    [op |-> op, arg |-> arg, pre |-> pre, ptr |-> ptr, err |-> err, ok |-> FALSE,
     files |-> <<>>, types |-> <<>>]

\* ------------------------------------------------------------ operations

LicenseFilesInDirOf_CaseKept(dir) ==
    LET r == ReadDir(dir) IN
    IF r.err # Nil
    THEN [out |-> <<>>, err |-> <<"error reading dir: ">> \o r.err]
    ELSE [out |-> SelectSeq(r.files, LAMBDA name : name \in fileTable), err |-> Nil]

LicenseFilesInDirOf_ErrorDropped(dir) ==
    LET r == ReadDir(dir) IN
    [out |-> SelectSeq(r.files, LAMBDA name : ToLower(name) \in fileTable), err |-> Nil]

LicenseFilesInDirOf_FilesOnly(dir) ==
    LET r == ReadDir(dir) IN
    IF r.err # Nil
    THEN [out |-> <<>>, err |-> <<"error reading dir: ">> \o r.err]
    ELSE [out |-> SelectSeq(r.files, LAMBDA name :
                      ToLower(name) \in fileTable /\ Kind(name) = "file"),
          err |-> Nil]

\* LicenseFilesInDir(dir): the names whose lower-case form is in fileTable,
\* or the error of ReadDir wrapped by fmt.Errorf("error reading dir: %v").
LicenseFilesInDirOf(dir) ==
    LET r == ReadDir(dir) IN
    IF r.err # Nil
    THEN [out |-> <<>>, err |-> <<"error reading dir: ">> \o r.err]
    ELSE [out |-> SelectSeq(r.files, LAMBDA name : ToLower(name) \in fileTable),
          err |-> Nil]

GuessFileOf_FirstTaken(rec, dir) ==
    LET f == LicenseFilesInDirOf(dir) IN
    IF f.err # Nil THEN [rec |-> rec, err |-> f.err]
    ELSE IF Len(f.out) = 0 THEN [rec |-> rec, err |-> Errorf(ErrNoLicenseFile)]
    ELSE [rec |-> [rec EXCEPT !.File = Join(dir, f.out[1])], err |-> Nil]

GuessFileOf_FileKept(rec, dir) ==
    LET f == LicenseFilesInDirOf(dir) IN
    IF rec.File # EmptyPath THEN [rec |-> rec, err |-> Nil]
    ELSE IF f.err # Nil THEN [rec |-> rec, err |-> f.err]
    ELSE IF Len(f.out) = 0 THEN [rec |-> rec, err |-> Errorf(ErrNoLicenseFile)]
    ELSE IF Len(f.out) = 1
         THEN [rec |-> [rec EXCEPT !.File = Join(dir, f.out[1])], err |-> Nil]
    ELSE [rec |-> rec, err |-> Errorf(ErrMultipleLicenses)]

\* l.GuessFile(dir) on a record: the record afterwards and the error.
GuessFileOf(rec, dir) ==
    LET f == LicenseFilesInDirOf(dir) IN
    IF f.err # Nil THEN [rec |-> rec, err |-> f.err]
    ELSE IF Len(f.out) = 0 THEN [rec |-> rec, err |-> Errorf(ErrNoLicenseFile)]
    ELSE IF Len(f.out) = 1
         THEN [rec |-> [rec EXCEPT !.File = Join(dir, f.out[1])], err |-> Nil]
    ELSE [rec |-> rec, err |-> Errorf(ErrMultipleLicenses)]

NewFromFileOf_GuessIgnored(path) ==
    LET r == ReadFile(path) IN
    IF r.err # Nil THEN [rec |-> Null, err |-> r.err]
    ELSE GuessTypeOf(License("", r.data, path))

\* NewFromFile(path): the pointer and the error returned.
NewFromFileOf(path) ==
    LET r == ReadFile(path) IN
    IF r.err # Nil THEN [rec |-> Null, err |-> r.err]
    ELSE LET g == GuessTypeOf(License("", r.data, path)) IN
         IF g.err # Nil THEN [rec |-> Null, err |-> g.err]
         ELSE [rec |-> g.rec, err |-> Nil]

NewFromDirOf_NameLowered(dir) ==
    LET g == GuessFileOf(License("", <<>>, EmptyPath), dir) IN
    IF g.err # Nil THEN [rec |-> Null, err |-> g.err]
    ELSE LET r == NewFromFileOf(g.rec.File) IN
         IF r.err # Nil THEN r
         ELSE [rec |-> [r.rec EXCEPT !.File.name = ToLower(@)], err |-> Nil]

\* NewFromDir(dir): the pointer and the error returned.
NewFromDirOf(dir) ==
    LET g == GuessFileOf(License("", <<>>, EmptyPath), dir) IN
    IF g.err # Nil THEN [rec |-> Null, err |-> g.err]
    ELSE NewFromFileOf(g.rec.File)

\* New(licenseType, licenseText): the License returned.
NewOf(licenseType, licenseText) == License(licenseType, licenseText, EmptyPath)

\* ------------------------------------------------------------ inputs

\* The types and texts the caller passes to New in Spec.
TypeInputs ==
    { LicenseMIT, LicenseISC, LicenseNewBSD, LicenseFreeBSD, LicenseApache20,
      LicenseMPL20, LicenseGPL20, LicenseGPL30, LicenseLGPL21, LicenseLGPL30,
      LicenseAGPL30, LicenseCDDL10, LicenseEPL10, LicenseUnlicense,
      "mit", "None", "" }
TextInputs ==
    { <<>>, Render(WordsMIT, "title", <<Lf>>),
      Render(WordsNoLicenseData, "title", <<Sp>>) }

\* The directories the caller passes: every directory, and the path of a
\* regular file or of a subdirectory.
DirInputs ==
    { DirPath(d) : d \in Dirs } \cup { Join(DirPath(DirOf({n})), n) : n \in Names }

\* The paths the caller passes to NewFromFile: every entry of every
\* directory, a name missing from a directory, a directory.
PathInputs ==
    { Join(DirPath(DirOf(ls)), n) : ls \in Listings, n \in Names } \cup DirInputs

\* The records the caller calls GuessFile on: a fresh License, one New
\* returned, and one that was loaded from a file.
FileReceivers ==
    { License("", <<>>, EmptyPath),
      NewOf("None", Render(WordsNoLicenseData, "title", <<Sp>>)),
      License(LicenseMIT, Render(WordsMIT, "title", <<Lf>>),
              Join(DirPath(DirOf({Named("upper", "license")})), Named("upper", "license"))) }

\* ------------------------------------------------------------ actions

NoCall == Ret("init", EmptyPath, Null, FALSE, Nil)
NotRun == [done |-> FALSE, err |-> Nil, kind |-> ""]

Init ==
    /\ DefaultLicenseFiles = GeneratedFiles
    /\ fileTable = { GeneratedFiles[k] : k \in 1..Len(GeneratedFiles) }
    /\ KnownLicenses = InitialLicenses
    /\ licenseTable = { InitialLicenses[k] : k \in 1..Len(InitialLicenses) }
    /\ l = Null
    /\ ret = NoCall
    /\ m = Null
    /\ mret = NotRun

\* The caller holds nothing of an earlier call.  No function of the package
\* reads what an earlier call returned, apart from the receiver of a
\* method, so the calls that take their inputs from the caller are made
\* from here, and Discard leads back here from anywhere.
Idle == l = Null /\ ret = NoCall

Discard ==
    /\ ~Idle
    /\ l' = Null
    /\ ret' = NoCall
    /\ UNCHANGED <<tables, m, mret>>

LicenseTypes ==
    /\ Idle
    /\ ret' = [Ret("LicenseTypes", EmptyPath, Null, FALSE, Nil)
                  EXCEPT !.types = KnownLicenses]
    /\ UNCHANGED <<tables, l, m, mret>>

LicenseFiles ==
    /\ Idle
    /\ ret' = [Ret("LicenseFiles", EmptyPath, Null, FALSE, Nil)
                  EXCEPT !.files = DefaultLicenseFiles]
    /\ UNCHANGED <<tables, l, m, mret>>

LicenseFilesInDir(dir) ==
    /\ Idle
    /\ LET f == LicenseFilesInDirOf(dir) IN
        ret' = [Ret("LicenseFilesInDir", dir, Null, FALSE, f.err) EXCEPT !.files = f.out]
    /\ UNCHANGED <<tables, l, m, mret>>

New(licenseType, licenseText) ==
    /\ Idle
    /\ l' = NewOf(licenseType, licenseText)
    /\ ret' = Ret("New", EmptyPath, Null, TRUE, Nil)
    /\ UNCHANGED <<tables, m, mret>>

NewFromFile(path) ==
    /\ Idle
    /\ LET r == NewFromFileOf(path) IN
        /\ l' = r.rec
        /\ ret' = Ret("NewFromFile", path, Null, ~r.rec.nil, r.err)
    /\ UNCHANGED <<tables, m, mret>>

NewFromDir(dir) ==
    /\ Idle
    /\ LET r == NewFromDirOf(dir) IN
        /\ l' = r.rec
        /\ ret' = Ret("NewFromDir", dir, Null, ~r.rec.nil, r.err)
    /\ UNCHANGED <<tables, m, mret>>

\* l.GuessFile(dir), on a record of the caller's.
GuessFile(rec, dir) ==
    /\ Idle
    /\ LET g == GuessFileOf(rec, dir) IN
        /\ l' = g.rec
        /\ ret' = Ret("GuessFile", dir, rec, FALSE, g.err)
    /\ UNCHANGED <<tables, m, mret>>

\* l.Recognized(), on the record the caller holds.
Recognized ==
    /\ ~l.nil
    /\ ret' = [Ret("Recognized", EmptyPath, l, FALSE, Nil)
                  EXCEPT !.ok = (l.Type \in licenseTable)]
    /\ UNCHANGED <<tables, l, m, mret>>

\* l.GuessType(), on the record the caller holds.
GuessType ==
    /\ ~l.nil
    /\ LET g == GuessTypeOf(l) IN
        /\ l' = g.rec
        /\ ret' = Ret("GuessType", EmptyPath, l, FALSE, g.err)
    /\ UNCHANGED <<tables, m, mret>>

Next ==
    \/ Discard
    \/ LicenseTypes
    \/ LicenseFiles
    \/ \E dir \in DirInputs : LicenseFilesInDir(dir)
    \/ \E t \in TypeInputs, x \in TextInputs : New(t, x)
    \/ \E path \in PathInputs : NewFromFile(path)
    \/ \E dir \in DirInputs : NewFromDir(dir)
    \/ \E rec \in FileReceivers, dir \in DirInputs : GuessFile(rec, dir)
    \/ Recognized
    \/ GuessType

Spec == Init /\ [][Next]_vars

\* ------------------------------------------------------------ rewritten texts

\* Every LF line ending of the text turned into CR LF.
WithCRLF(text) ==
    Flatten([i \in 1..Len(text) |->
        IF text[i] = Lf /\ ~(i > 1 /\ text[i - 1] = Cr) THEN <<Cr, Lf>>
        ELSE <<text[i]>>])

\* A blank line put in after the line endings numbered in at (all of them
\* when every is TRUE); k counts the line endings passed.
WithBlankLines(text, at, every, k) ==
    Flatten([i \in 1..Len(text) |->
        IF text[i] # Lf THEN <<text[i]>>
        ELSE IF every \/ (k + Cardinality({ j \in 1..i : text[j] = Lf })) \in at
             THEN <<Lf, Lf>>
        ELSE <<Lf>>])

\* The ways the caller rewrites a text.
Rewritings == { "crlf", "blank-first", "blank-every", "blank-front", "blank-crlf", "upper" }

Rewritten(kind, text) ==
    IF kind = "crlf" THEN WithCRLF(text)
    ELSE IF kind = "blank-first" THEN WithBlankLines(text, {1}, FALSE, 0)
    ELSE IF kind = "blank-every" THEN WithBlankLines(text, {}, TRUE, 0)
    ELSE IF kind = "blank-front" THEN <<Lf>> \o text \o <<Lf, Lf>>
    ELSE IF kind = "blank-crlf" THEN WithCRLF(WithBlankLines(text, {}, TRUE, 0))
    ELSE ToUpper(text)

\* The caller, having classified l, builds a second record from the text
\* of l rewritten ...
Rewrite(kind) ==
    /\ ret.op = "GuessType"
    /\ m.nil
    /\ m' = NewOf(ret.pre.Type, Rewritten(kind, l.Text))
    /\ mret' = [done |-> FALSE, err |-> Nil, kind |-> kind]
    /\ UNCHANGED <<tables, l, ret>>

\* ... and classifies it: m.GuessType().
GuessTypeRewritten ==
    /\ ~m.nil
    /\ ~mret.done
    /\ LET g == GuessTypeOf(m) IN
        /\ m' = g.rec
        /\ mret' = [mret EXCEPT !.done = TRUE, !.err = g.err]
    /\ UNCHANGED <<tables, l, ret>>

\* The classifier on its own: the caller starts with a record New returned
\* for one of the generated texts.
InitClassify ==
    /\ DefaultLicenseFiles = GeneratedFiles
    /\ fileTable = { GeneratedFiles[k] : k \in 1..Len(GeneratedFiles) }
    /\ KnownLicenses = InitialLicenses
    /\ licenseTable = { InitialLicenses[k] : k \in 1..Len(InitialLicenses) }
    /\ \E x \in Texts : l = NewOf("", x)
    /\ ret = Ret("New", EmptyPath, Null, TRUE, Nil)
    /\ m = Null
    /\ mret = NotRun

NextClassify ==
    \/ ret.op = "New" /\ GuessType
    \/ \E kind \in Rewritings : Rewrite(kind)
    \/ GuessTypeRewritten

SpecClassify == InitClassify /\ [][NextClassify]_vars

\* ------------------------------------------------------------ properties

\* The rules of the classification cascade as a table, in their order:
\* whether the signature of the rule is present in comp, and the
\* identifier the rule gives.
RuleTable(comp) ==
    << [hit |-> scan(comp, SigMIT), type |-> LicenseMIT],
       [hit |-> scan(comp, SigISC), type |-> LicenseISC],
       [hit |-> scan(comp, SigApache) \/ scan(comp, SigApacheURL), type |-> LicenseApache20],
       [hit |-> scan(comp, SigGPL20), type |-> LicenseGPL20],
       [hit |-> scan(comp, SigGPL30), type |-> LicenseGPL30],
       [hit |-> scan(comp, SigLGPL21), type |-> LicenseLGPL21],
       [hit |-> scan(comp, SigLGPL30), type |-> LicenseLGPL30],
       [hit |-> scan(comp, SigAGPL30), type |-> LicenseAGPL30],
       [hit |-> scan(comp, SigMozilla) /\ scan(comp, SigVersion20), type |-> LicenseMPL20],
       [hit |-> scan(comp, SigRedistribution),
        type |-> IF scan(comp, Phrase(WordsNeither)) THEN LicenseNewBSD ELSE LicenseFreeBSD],
       [hit |-> scan(comp, SigCDDL10), type |-> LicenseCDDL10],
       [hit |-> scan(comp, SigEPL10), type |-> LicenseEPL10],
       [hit |-> scan(comp, SigUnlicense), type |-> LicenseUnlicense] >>

\* The number of the first rule whose signature is present, 0 when there
\* is none.
FirstHit(comp) ==
    LET t == RuleTable(comp)
        hits == { k \in 1..Len(t) : t[k].hit }
    IN  IF hits = {} THEN 0 ELSE CHOOSE k \in hits : \A j \in hits : k <= j

\* C1: GuessType sets Type to the identifier of the first rule, in the
\* order MIT, ISC, Apache-2.0, GPL-2.0, GPL-3.0, LGPL-2.1, LGPL-3.0,
\* AGPL-3.0, MPL-2.0, BSD, CDDL-1.0, EPL-1.0, Unlicense, whose signature is
\* present in the normalized text, and fails with UnrecognizedLicense when
\* no rule matches.
C1_FirstRuleWins ==
    ret.op = "GuessType" =>
        LET comp == Normalize(ret.pre.Text)
            k == FirstHit(comp)
        IN  IF k = 0 THEN ret.err = Errorf(ErrUnrecognizedLicense)
            ELSE ret.err = Nil /\ l.Type = RuleTable(comp)[k].type

\* A text holding both the MIT and the ISC phrase was classified as MIT.
C1_Witness ==
    /\ ret.op = "GuessType"
    /\ scan(Normalize(ret.pre.Text), SigMIT)
    /\ scan(Normalize(ret.pre.Text), SigISC)
    /\ l.Type = LicenseMIT
    /\ ret.err = Nil

\* The entries of the directory dir whose lower-case name is in fileTable.
Matches(dir) ==
    LET ls == ReadDir(dir).files
    IN  { i \in 1..Len(ls) : ToLower(ls[i]) \in fileTable }

\* C2: GuessFile on a readable directory is decided by the number of
\* entries that match the candidate file names: none fails with
\* NoLicenseFile, one succeeds and sets File to the full path of that entry,
\* two or more fail with MultipleLicenses and no entry is picked.
C2_CountDecides ==
    (ret.op = "GuessFile" /\ ReadDir(ret.arg).err = Nil) =>
        LET ls == ReadDir(ret.arg).files
            n == Cardinality(Matches(ret.arg))
        IN  /\ n = 0 => ret.err = Errorf(ErrNoLicenseFile) /\ l = ret.pre
            /\ n = 1 => /\ ret.err = Nil
                        /\ \E i \in Matches(ret.arg) :
                              l = [ret.pre EXCEPT !.File = Join(ret.arg, ls[i])]
            /\ n >= 2 => ret.err = Errorf(ErrMultipleLicenses) /\ l = ret.pre

\* GuessFile failed with MultipleLicenses on a directory with two or more
\* matching entries.
C2_Witness ==
    /\ ret.op = "GuessFile"
    /\ ReadDir(ret.arg).err = Nil
    /\ Cardinality(Matches(ret.arg)) >= 2
    /\ ret.err = Errorf(ErrMultipleLicenses)

\* The Known Identifier Set as the specification lists it.
KnownIdentifierSet ==
    { "MIT", "ISC", "Apache-2.0", "GPL-2.0", "GPL-3.0", "LGPL-2.1", "LGPL-3.0",
      "AGPL-3.0", "NewBSD", "FreeBSD", "MPL-2.0", "CDDL-1.0", "EPL-1.0", "Unlicense" }

\* C3: for a record built by New(t, x), Recognized() is true exactly when
\* t is one of MIT, ISC, Apache-2.0, GPL-2.0, GPL-3.0, LGPL-2.1, LGPL-3.0,
\* AGPL-3.0, NewBSD, FreeBSD, MPL-2.0, CDDL-1.0, EPL-1.0, Unlicense, and the
\* call leaves Type, Text and File as they were.
C3_RecognizedIffKnown ==
    (ret.op = "Recognized" /\ \E t \in TypeInputs, x \in TextInputs : ret.pre = NewOf(t, x)) =>
        /\ ret.ok <=> (ret.pre.Type \in KnownIdentifierSet)
        /\ l = ret.pre

\* The cross product of the base names and the extensions.
Candidates(bases) ==
    { Concat(b, x) : b \in bases, x \in {"", ".md", ".rst", ".txt"} }

\* The entries of a readable directory, as a set.
Entries(dir) == { ReadDir(dir).files[i] : i \in 1..Len(ReadDir(dir).files) }
Listed(files) == { files[i] : i \in 1..Len(files) }

\* C4 as claimed: an entry is a candidate of LicenseFilesInDir exactly when
\* its lower-case name is one of the 20 names made of license, copying,
\* copyleft, copyright, unlicense and the extensions none, .md, .rst, .txt.
C4_TwentyNames ==
    (ret.op = "LicenseFilesInDir" /\ ret.err = Nil) =>
        \A name \in Entries(ret.arg) :
            name \in Listed(ret.files) <=>
                ToLower(name) \in Candidates({"license", "copying", "copyleft",
                                              "copyright", "unlicense"})

\* C4 as amended: an entry is a candidate of LicenseFilesInDir exactly when
\* its lower-case name is one of the 16 names made of copying, copyleft,
\* license, unlicense and the extensions none, .md, .rst, .txt; entries
\* named COPYRIGHT or copyright.txt are not candidates.
C4_SixteenNames ==
    (ret.op = "LicenseFilesInDir" /\ ret.err = Nil) =>
        \A name \in Entries(ret.arg) :
            name \in Listed(ret.files) <=>
                ToLower(name) \in Candidates({"copying", "copyleft", "license",
                                              "unlicense"})

\* LicenseFilesInDir listed LICENSE and passed over COPYRIGHT in a directory
\* that holds both.
C4_Witness ==
    /\ ret.op = "LicenseFilesInDir"
    /\ ret.err = Nil
    /\ Named("upper", "copyright") \in Entries(ret.arg)
    /\ ret.files = <<Named("upper", "license")>>

\* C5: when the text matches no signature, GuessType returns
\* UnrecognizedLicense and leaves Type as it was; Text and File are
\* unchanged whether it fails or succeeds.
C5_FailureKeepsType ==
    ret.op = "GuessType" =>
        /\ l.Text = ret.pre.Text
        /\ l.File = ret.pre.File
        /\ FirstHit(Normalize(ret.pre.Text)) = 0 =>
              ret.err = Errorf(ErrUnrecognizedLicense) /\ l.Type = ret.pre.Type

\* GuessType failed on a record of type None holding "No license data", and
\* the type is still None.
C5_Witness ==
    /\ ret.op = "GuessType"
    /\ ret.err = Errorf(ErrUnrecognizedLicense)
    /\ ret.pre.Text = Render(WordsNoLicenseData, "title", <<Sp>>)
    /\ l.Type = "None"

\* The rewritings that change line endings and blank lines only.
LineRewritings == { "crlf", "blank-first", "blank-every", "blank-front", "blank-crlf" }

\* C6: GuessType gives the same outcome, the same identifier or the same
\* UnrecognizedLicense failure, on a text and on that text with its LF line
\* endings turned into CR LF and/or with extra blank lines put in.
C6_LineBreaksIgnored ==
    (mret.done /\ mret.kind \in LineRewritings) =>
        /\ mret.err = ret.err
        /\ m.Type = l.Type

\* A text classified as MIT was classified as MIT again with a blank line
\* after every line and CR LF line endings.
C6_Witness ==
    /\ mret.done
    /\ mret.kind = "blank-crlf"
    /\ m.Text # l.Text
    /\ l.Type = LicenseMIT
    /\ m.Type = LicenseMIT

\* C7 as claimed: GuessType gives the same outcome on every text and on
\* that text in upper case.
C7_UpperCaseSame ==
    (mret.done /\ mret.kind = "upper") =>
        /\ mret.err = ret.err
        /\ m.Type = l.Type

\* Every letter of the text is an ASCII letter.
IsASCII(text) == \A i \in 1..Len(text) : text[i].c # "dotless"

\* C7 as amended: GuessType gives the same outcome on a text and on that
\* text in upper case when every letter of the text is an ASCII letter.
C7_UpperCaseSameASCII ==
    (mret.done /\ mret.kind = "upper" /\ IsASCII(l.Text)) =>
        /\ mret.err = ret.err
        /\ m.Type = l.Type

\* A capitalised ASCII text classified as GPL-3.0 was classified as GPL-3.0
\* again in upper case.
C7_Witness ==
    /\ mret.done
    /\ mret.kind = "upper"
    /\ IsASCII(l.Text)
    /\ m.Text # l.Text
    /\ l.Type = LicenseGPL30
    /\ m.Type = LicenseGPL30

\* C8 as claimed: a text containing "redistribution and use in source and
\* binary forms" and "neither the name of" is classified as NewBSD, one
\* containing the first phrase without the second as FreeBSD.
C8_BSDBranch ==
    LET comp == Normalize(ret.pre.Text) IN
    (ret.op = "GuessType" /\ scan(comp, Phrase(WordsRedistribution))) =>
        /\ ret.err = Nil
        /\ l.Type = IF scan(comp, Phrase(WordsNeither)) THEN LicenseNewBSD
                    ELSE LicenseFreeBSD

\* C8 as amended: the same, for a text that holds the signature of none of
\* the nine rules before the BSD rule (MIT, ISC, Apache-2.0, GPL-2.0,
\* GPL-3.0, LGPL-2.1, LGPL-3.0, AGPL-3.0, MPL-2.0).
C8_BSDBranchAfterEarlierRules ==
    LET comp == Normalize(ret.pre.Text) IN
    (/\ ret.op = "GuessType"
     /\ scan(comp, Phrase(WordsRedistribution))
     /\ \A k \in 1..9 : ~RuleTable(comp)[k].hit) =>
        /\ ret.err = Nil
        /\ l.Type = IF scan(comp, Phrase(WordsNeither)) THEN LicenseNewBSD
                    ELSE LicenseFreeBSD

\* A text holding both phrases, and no earlier signature, was classified as
\* NewBSD.
C8_Witness ==
    LET comp == Normalize(ret.pre.Text) IN
    /\ ret.op = "GuessType"
    /\ scan(comp, Phrase(WordsRedistribution))
    /\ scan(comp, Phrase(WordsNeither))
    /\ \A k \in 1..9 : ~RuleTable(comp)[k].hit
    /\ l.Type = LicenseNewBSD

\* C9 as claimed: when the directory cannot be read, GuessFile and
\* NewFromDir fail with the error of the file system itself, unchanged, and
\* that error is neither NoLicenseFile nor MultipleLicenses.
C9_ErrorVerbatim ==
    (ret.op \in {"GuessFile", "NewFromDir"} /\ ReadDir(ret.arg).err # Nil) =>
        /\ ret.err = ReadDir(ret.arg).err
        /\ ret.err \notin {Errorf(ErrNoLicenseFile), Errorf(ErrMultipleLicenses)}

\* C9 as amended: when the directory cannot be read, GuessFile and
\* NewFromDir fail with a new error whose message is "error reading dir: "
\* followed by the message of the file system's error; it is neither
\* NoLicenseFile nor MultipleLicenses, and no record is returned or changed.
C9_ErrorWrapped ==
    (ret.op \in {"GuessFile", "NewFromDir"} /\ ReadDir(ret.arg).err # Nil) =>
        /\ ret.err = <<"error reading dir: ">> \o ReadDir(ret.arg).err
        /\ ret.err \notin {Errorf(ErrNoLicenseFile), Errorf(ErrMultipleLicenses)}
        /\ ret.op = "NewFromDir" => ~ret.ptr /\ l = Null
        /\ ret.op = "GuessFile" => l = ret.pre

\* NewFromDir failed on a path that does not exist.
C9_Witness ==
    /\ ret.op = "NewFromDir"
    /\ ret.arg.dir.st = "enoent"
    /\ ret.err = <<"error reading dir: ", "open", "no such file or directory">>

\* C10: NewFromFile returns a record and no error, or no record and an
\* error: no record when the file cannot be read, no record when its text
\* matches no signature, and a record never has an empty Type.
C10_RecordOrError ==
    ret.op = "NewFromFile" =>
        LET r == ReadFile(ret.arg) IN
        /\ ret.ptr <=> ~l.nil
        /\ ret.ptr <=> (ret.err = Nil)
        /\ r.err # Nil => ~ret.ptr /\ ret.err = r.err
        /\ (r.err = Nil /\ FirstHit(Normalize(r.data)) = 0) =>
              ~ret.ptr /\ ret.err = Errorf(ErrUnrecognizedLicense)
        /\ ret.ptr => l.Type # ""

\* NewFromFile read a file whose text matches no signature and returned no
\* record.
C10_Witness ==
    /\ ret.op = "NewFromFile"
    /\ ReadFile(ret.arg).err = Nil
    /\ FirstHit(Normalize(ReadFile(ret.arg).data)) = 0
    /\ ~ret.ptr
    /\ ret.err = Errorf(ErrUnrecognizedLicense)

\* C11: when the directory holds exactly one candidate entry and the
\* content of that file is classifiable, NewFromDir returns a record whose
\* File is the directory joined with the name of the entry as it is spelt
\* on disk, whose Text is the content of the file unchanged and whose Type
\* is the classification of that content; NewFromFile on that path gives
\* the same record.
C11_DirRecordIsFileRecord ==
    (/\ ret.op = "NewFromDir"
     /\ ReadDir(ret.arg).err = Nil
     /\ Cardinality(Matches(ret.arg)) = 1) =>
        LET ls == ReadDir(ret.arg).files
            name == ls[CHOOSE i \in Matches(ret.arg) : TRUE]
            path == Join(ret.arg, name)
            r == ReadFile(path)
            comp == Normalize(r.data)
        IN  (r.err = Nil /\ FirstHit(comp) # 0) =>
                /\ ret.ptr
                /\ ret.err = Nil
                /\ l = License(RuleTable(comp)[FirstHit(comp)].type, r.data, path)
                /\ l = NewFromFileOf(path).rec

\* NewFromDir loaded LICENSE.txt, the one candidate of its directory: File
\* names it as LICENSE.txt, Text still has its CR LF line endings, and the
\* Type is NewBSD.
C11_Witness ==
    /\ ret.op = "NewFromDir"
    /\ ret.ptr
    /\ l.File = Join(ret.arg, NamedExt("upper", "license", "lower", ".txt"))
    /\ l.File.name # ToLower(l.File.name)
    /\ l.Text = Render(WordsRedistribution \o WordsNeither, "title", <<Cr, Lf>>)
    /\ l.Text # Normalize(l.Text)
    /\ l.Type = LicenseNewBSD

\* A License no call has been made on.
Fresh == License("", <<>>, EmptyPath)

\* C12: whatever calls were made before and however they ended, the four
\* tables are as init left them, and the outcome of a call is the outcome
\* of the same call made first: of GuessFile on a fresh record for the same
\* directory, of GuessType on a fresh record with the same text, of
\* Recognized by the tables of init, of NewFromFile and NewFromDir by
\* their argument alone.
C12_HistoryIndependent ==
    /\ DefaultLicenseFiles = GeneratedFiles
    /\ fileTable = Listed(GeneratedFiles)
    /\ KnownLicenses = InitialLicenses
    /\ licenseTable = Listed(InitialLicenses)
    /\ ret.op = "GuessFile" =>
          LET first == GuessFileOf(Fresh, ret.arg) IN
          /\ ret.err = first.err
          /\ l.File = IF first.err = Nil THEN first.rec.File ELSE ret.pre.File
          /\ l.Type = ret.pre.Type /\ l.Text = ret.pre.Text
    /\ ret.op = "GuessType" =>
          LET first == GuessTypeOf(NewOf("", ret.pre.Text)) IN
          /\ ret.err = first.err
          /\ l.Type = IF first.err = Nil THEN first.rec.Type ELSE ret.pre.Type
          /\ l.File = ret.pre.File /\ l.Text = ret.pre.Text
    /\ ret.op = "Recognized" =>
          /\ ret.ok <=> (ret.pre.Type \in Listed(InitialLicenses))
          /\ l = ret.pre
    /\ ret.op = "NewFromFile" =>
          l = NewFromFileOf(ret.arg).rec /\ ret.err = NewFromFileOf(ret.arg).err
    /\ ret.op = "NewFromDir" =>
          l = NewFromDirOf(ret.arg).rec /\ ret.err = NewFromDirOf(ret.arg).err

\* GuessFile, on a record that an earlier call had loaded from another
\* file, found the one candidate of the directory and set File to it.
C12_Witness ==
    /\ ret.op = "GuessFile"
    /\ ret.pre.File # EmptyPath
    /\ ret.err = Nil
    /\ l.File # ret.pre.File
    /\ l.File = GuessFileOf(Fresh, ret.arg).rec.File

\* C13: in every state the lists and the tables agree and hold no
\* duplicates: DefaultLicenseFiles, which LicenseFiles returns, and
\* fileTable both have Len(fileNames) * Len(fileExtensions) elements and
\* the same members; KnownLicenses, which LicenseTypes returns, is not
\* empty and has the members of licenseTable; Recognized is true for a
\* type exactly when KnownLicenses lists it.
C13_TablesAgree ==
    /\ Len(DefaultLicenseFiles) = Len(fileNames) * Len(fileExtensions)
    /\ Cardinality(fileTable) = Len(fileNames) * Len(fileExtensions)
    /\ Listed(DefaultLicenseFiles) = fileTable
    /\ Len(KnownLicenses) > 0
    /\ Listed(KnownLicenses) = licenseTable
    /\ Cardinality(licenseTable) = Len(KnownLicenses)
    /\ ret.op = "LicenseFiles" => ret.files = DefaultLicenseFiles
    /\ ret.op = "LicenseTypes" => ret.types = KnownLicenses
    /\ ret.op = "Recognized" => (ret.ok <=> ret.pre.Type \in Listed(KnownLicenses))

\* Recognized returned true for a record of type Apache-2.0, which
\* KnownLicenses lists, after New built it.
C13_Witness ==
    /\ ret.op = "Recognized"
    /\ ret.ok
    /\ ret.pre.Type = LicenseApache20
    /\ LicenseApache20 \in Listed(KnownLicenses)
    /\ Cardinality(fileTable) = Len(DefaultLicenseFiles)

\* C14: a record whose Type is the classification of its Text, as
\* GuessType, NewFromFile and NewFromDir leave it when they succeed, is
\* recognized: Recognized returns true on it.
C14_ClassifiedIsRecognized ==
    LET comp == Normalize(ret.pre.Text) IN
    (/\ ret.op = "Recognized"
     /\ FirstHit(comp) # 0
     /\ ret.pre.Type = RuleTable(comp)[FirstHit(comp)].type) => ret.ok

\* The matching entries of the directory dir that are subdirectories.
SubdirMatches(dir) ==
    { i \in Matches(dir) : Kind(ReadDir(dir).files[i]) = "dir" }

\* C15: a subdirectory whose lower-case name is a candidate name counts
\* as a candidate like a regular file: LicenseFilesInDir lists it; with
\* another candidate beside it GuessFile and NewFromDir fail with
\* MultipleLicenses; when it is the only candidate GuessFile succeeds and
\* sets File to it, and NewFromDir fails with the error of reading it,
\* which is not NoLicenseFile.
C15_KindIgnored ==
    (ReadDir(ret.arg).err = Nil /\ SubdirMatches(ret.arg) # {}) =>
        LET ls == ReadDir(ret.arg).files
            n == Cardinality(Matches(ret.arg))
            sub == Join(ret.arg, ls[CHOOSE i \in SubdirMatches(ret.arg) : TRUE])
        IN  /\ ret.op = "LicenseFilesInDir" =>
                  \A i \in SubdirMatches(ret.arg) : ls[i] \in Listed(ret.files)
            /\ (ret.op \in {"GuessFile", "NewFromDir"} /\ n >= 2) =>
                  ret.err = Errorf(ErrMultipleLicenses)
            /\ (ret.op = "GuessFile" /\ n = 1) =>
                  ret.err = Nil /\ l.File = sub
            /\ (ret.op = "NewFromDir" /\ n = 1) =>
                  /\ ~ret.ptr
                  /\ ret.err = ReadFile(sub).err
                  /\ ret.err = SysError("read", "eisdir")
                  /\ ret.err # Errorf(ErrNoLicenseFile)

\* NewFromDir failed with "is a directory" on a directory whose only
\* candidate is the subdirectory copyleft.
C15_Witness ==
    /\ ret.op = "NewFromDir"
    /\ ReadDir(ret.arg).err = Nil
    /\ Cardinality(Matches(ret.arg)) = 1
    /\ SubdirMatches(ret.arg) = Matches(ret.arg)
    /\ Named("lower", "nope") \in Entries(ret.arg)
    /\ ret.err = <<"read", "is a directory">>

====
